---- MODULE Spec2Model ----
(***************************************************************************)
(* Model of src/app.py: the search adapter web_search and the two-call     *)
(* orchestration get_answer.                                               *)
(*                                                                         *)
(* A Python str is a sequence of atoms (TLA+ strings); concatenation and   *)
(* f-string formatting are \o, "\n" is an atom of its own.  A Python value *)
(* is a record [t, v, items]: t the type name, v the atoms of a str/int,   *)
(* items the entries of a dict or list.  A call's outcome is a record      *)
(* [raised, value, exc]: either the returned value or the exception that   *)
(* left the call.                                                          *)
(***************************************************************************)
EXTENDS Integers, Sequences, FiniteSets, TLC

\* ------------------------------------------------------------------ bounds
MaxHits == 4          \* results the search provider has for a query
MaxToolCalls == 2     \* tool invocation requests in one model response

\* -------------------------------------------------------- Python values
Str(s) == [t |-> "str", v |-> s, items |-> <<>>]
None == [t |-> "NoneType", v |-> <<>>, items |-> <<>>]
PyInt(s) == [t |-> "int", v |-> <<s>>, items |-> <<>>]
Dict(its) == [t |-> "dict", v |-> <<>>, items |-> its]
List(its) == [t |-> "list", v |-> <<>>, items |-> its]

IsStr(x) == x.t = "str"

NoExc == [cls |-> "", msg |-> <<>>]
Exc(c, m) == [cls |-> c, msg |-> m]
Return(x) == [raised |-> FALSE, value |-> x, exc |-> NoExc]
Raise(e) == [raised |-> TRUE, value |-> None, exc |-> e]

\* str(e) of an exception, as the f-strings of lines 43 and 138 format it
ExcStr(e) == e.msg

\* s contains sub as a contiguous substring
Contains(s, sub) ==
    \E i \in 0..(Len(s) - Len(sub)) :
        \A j \in 1..Len(sub) : s[i + j] = sub[j]

\* ------------------------------------------------------------ constants
LLM_MODEL == "qwen3:8b"
max_results == 3
SUPPORTED_TOOL == "web_search"

\* the tools list declared by get_answer
tools ==
    << [type |-> "function",
        name |-> "web_search",
        properties |-> <<"query">>,
        required |-> <<"query">>] >>

\* ------------------------------------------------------------- json.loads
\* The arguments string is a sequence of lexical tokens [tk, s]:
\*   tk = "punct" (s one of { } [ ] : ,), "str", "num", "null", "bad".
P(c) == [tk |-> "punct", s |-> c]
S(c) == [tk |-> "str", s |-> c]
N(c) == [tk |-> "num", s |-> c]
NullTok == [tk |-> "null", s |-> "null"]
Bad(c) == [tk |-> "bad", s |-> c]

ParseOk(val, next) == [ok |-> TRUE, val |-> val, next |-> next, err |-> ""]
ParseErr(e) == [ok |-> FALSE, val |-> None, next |-> 0, err |-> e]

RECURSIVE ParseValue(_, _)
RECURSIVE ParseMembers(_, _, _)
RECURSIVE ParseElements(_, _, _)

\* d[k] = val, as a dict assignment: an existing key keeps its place
DictSet(its, k, val) ==
    IF \E i \in 1..Len(its) : its[i].k = k
    THEN [i \in 1..Len(its) |-> IF its[i].k = k THEN [k |-> k, val |-> val] ELSE its[i]]
    ELSE Append(its, [k |-> k, val |-> val])

\* the members of an object, from position i (after "{" or after ",")
ParseMembers(toks, i, acc) ==
    IF i > Len(toks) \/ toks[i].tk # "str"
    THEN ParseErr("Expecting property name enclosed in double quotes")
    ELSE IF i + 1 > Len(toks) \/ toks[i + 1] # P(":")
    THEN ParseErr("Expecting ':' delimiter")
    ELSE LET r == ParseValue(toks, i + 2) IN
         IF ~r.ok THEN r
         ELSE LET acc2 == DictSet(acc, toks[i].s, r.val) IN
              IF r.next <= Len(toks) /\ toks[r.next] = P("}")
              THEN ParseOk(Dict(acc2), r.next + 1)
              ELSE IF r.next <= Len(toks) /\ toks[r.next] = P(",")
              THEN ParseMembers(toks, r.next + 1, acc2)
              ELSE ParseErr("Expecting ',' delimiter")

\* the elements of an array, from position i (after "[" or after ",")
ParseElements(toks, i, acc) ==
    LET r == ParseValue(toks, i) IN
    IF ~r.ok THEN r
    ELSE LET acc2 == Append(acc, [k |-> "", val |-> r.val]) IN
         IF r.next <= Len(toks) /\ toks[r.next] = P("]")
         THEN ParseOk(List(acc2), r.next + 1)
         ELSE IF r.next <= Len(toks) /\ toks[r.next] = P(",")
         THEN ParseElements(toks, r.next + 1, acc2)
         ELSE ParseErr("Expecting ',' delimiter")

ParseValue(toks, i) ==
    IF i > Len(toks) THEN ParseErr("Expecting value")
    ELSE IF toks[i].tk = "str" THEN ParseOk(Str(<<toks[i].s>>), i + 1)
    ELSE IF toks[i].tk = "num" THEN ParseOk(PyInt(toks[i].s), i + 1)
    ELSE IF toks[i].tk = "null" THEN ParseOk(None, i + 1)
    ELSE IF toks[i] = P("{")
    THEN IF i + 1 <= Len(toks) /\ toks[i + 1] = P("}")
         THEN ParseOk(Dict(<<>>), i + 2)
         ELSE ParseMembers(toks, i + 1, <<>>)
    ELSE IF toks[i] = P("[")
    THEN IF i + 1 <= Len(toks) /\ toks[i + 1] = P("]")
         THEN ParseOk(List(<<>>), i + 2)
         ELSE ParseElements(toks, i + 1, <<>>)
    ELSE ParseErr("Expecting value")

\* json.loads(tool_call.function.arguments)
\* (variant: text that does not decode is taken as an empty object)
json_loads_lenient(toks) ==
    LET r == ParseValue(toks, 1) IN
    IF ~r.ok \/ r.next <= Len(toks) THEN Return(Dict(<<>>)) ELSE Return(r.val)
json_loads(toks) ==
    LET r == ParseValue(toks, 1) IN
    IF ~r.ok THEN Raise(Exc("JSONDecodeError", <<r.err>>))
    ELSE IF r.next <= Len(toks) THEN Raise(Exc("JSONDecodeError", <<"Extra data">>))
    ELSE Return(r.val)

\* function_args.get("query")
\* (variant: function_args[key], which raises for a key the dict lacks)
args_get_subscript(function_args, key) ==
    IF function_args.t # "dict"
    THEN Raise(Exc("TypeError", <<"'", function_args.t, "' object is not subscriptable">>))
    ELSE IF \E i \in 1..Len(function_args.items) : function_args.items[i].k = key
    THEN LET i == CHOOSE i \in 1..Len(function_args.items) :
                      function_args.items[i].k = key
         IN Return(function_args.items[i].val)
    ELSE Raise(Exc("KeyError", <<"'", key, "'">>))
args_get(function_args, key) ==
    IF function_args.t # "dict"
    THEN Raise(Exc("AttributeError",
                   <<"'", function_args.t, "' object has no attribute 'get'">>))
    ELSE IF \E i \in 1..Len(function_args.items) : function_args.items[i].k = key
    THEN LET i == CHOOSE i \in 1..Len(function_args.items) :
                      function_args.items[i].k = key
         IN Return(function_args.items[i].val)
    ELSE Return(None)

\* query=function_args.get("query")
\* (variant: the key read is not the declared parameter)
query_argument_wrong_key(function_args) == args_get(function_args, "q")
query_argument(function_args) == args_get(function_args, "query")

\* ------------------------------------------------------------- web_search
\* A provider outcome is [kind, exc, hits]: DDGS() raised ("open_fail"),
\* ddgs.text raised ("search_fail"), or the provider has the result dicts
\* hits for the query.  A result dict is [keys, title, body]; keys are the
\* keys it has.
OpenFail(e) == [kind |-> "open_fail", exc |-> e, hits |-> <<>>]
SearchFail(e) == [kind |-> "search_fail", exc |-> e, hits |-> <<>>]
Hits(h) == [kind |-> "hits", exc |-> NoExc, hits |-> h]
NoProvider == [kind |-> "none", exc |-> NoExc, hits |-> <<>>]

Min(a, b) == IF a < b THEN a ELSE b

\* ddgs.text(query, max_results=n): at most the first n results
ddgs_text(hits, n) == SubSeq(hits, 1, Min(Len(hits), n))

\* list(ddgs.text(query, max_results=3))
\* (variant: max_results is not passed, every result is taken)
search_results_list_uncapped(hits) == hits
search_results_list(hits) == ddgs_text(hits, max_results)

\* f"Title: {r['title']}\nSnippet: {r['body']}"
format_result(r) ==
    IF "title" \notin r.keys THEN Raise(Exc("KeyError", <<"'title'">>))
    ELSE IF "body" \notin r.keys THEN Raise(Exc("KeyError", <<"'body'">>))
    ELSE Return(Str(<<"Title: ">> \o r.title \o <<"\n", "Snippet: ">> \o r.body))

RECURSIVE join_formatted(_, _)
\* "\n".join([format_result(r) for r in results]), from result i on; the
\* comprehension stops at the first result that raises
join_formatted(results, i) ==
    LET f == format_result(results[i]) IN
    IF f.raised THEN f
    ELSE IF i = Len(results) THEN f
    ELSE LET rest == join_formatted(results, i + 1) IN
         IF rest.raised THEN rest
         ELSE Return(Str(f.value.v \o <<"\n">> \o rest.value.v))

NO_RESULTS == <<"No results found.">>
SEARCH_ERROR_PREFIX == <<"An error occurred during search: ">>

\* the try block of web_search
web_search_try(query, provider) ==
    IF provider.kind = "open_fail" THEN Raise(provider.exc)
    ELSE IF provider.kind = "search_fail" THEN Raise(provider.exc)
    ELSE LET results == search_results_list(provider.hits) IN
         IF results = <<>> THEN Return(Str(NO_RESULTS))
         ELSE join_formatted(results, 1)

\* the except clause of web_search
web_search_except(e) == Return(Str(SEARCH_ERROR_PREFIX \o ExcStr(e)))

\* (variant: no except clause)
web_search_unguarded(query, provider) == web_search_try(query, provider)
web_search(query, provider) ==
    LET r == web_search_try(query, provider) IN
    IF r.raised THEN web_search_except(r.exc) ELSE r

\* ------------------------------------------------------------- get_answer
\* A model response is [kind, exc, content, tool_calls]: the completion call
\* raised exc ("fail"), or returned a message ("ok") with its content and
\* tool_calls (an empty tool_calls stands for both None and []: `if
\* tool_calls` takes the same branch for either).  A tool call is
\* [id, name, arguments], arguments the tokens of its JSON text.
FailResp(e) == [kind |-> "fail", exc |-> e, content |-> None, tool_calls |-> <<>>]
TextResp(c) == [kind |-> "ok", exc |-> NoExc, content |-> Str(c), tool_calls |-> <<>>]
ToolResp(tcs) == [kind |-> "ok", exc |-> NoExc, content |-> None, tool_calls |-> tcs]
NoResp == [kind |-> "none", exc |-> NoExc, content |-> None, tool_calls |-> <<>>]

ToolCall(id, name, arguments) == [id |-> id, name |-> name, arguments |-> arguments]
NoToolCall == ToolCall("", "", <<>>)

Message(role, content, tcs, id, name) ==
    [role |-> role, content |-> content, tool_calls |-> tcs,
     tool_call_id |-> id, name |-> name]

\* {"role": "user", "content": question}
user_message(q) == Message("user", Str(q), <<>>, "", "")

\* response.choices[0].message
response_message(response) ==
    Message("assistant", response.content, response.tool_calls, "", "")

\* the 'tool' role message appended after the search
\* (variant: the content is left empty)
tool_message_without_results(tc, function_name, search_results) ==
    Message("tool", Str(<<>>), <<>>, tc.id, function_name)
tool_message(tc, function_name, search_results) ==
    Message("tool", search_results, <<>>, tc.id, function_name)

\* the first completion request
first_request(msgs) ==
    [model |-> LLM_MODEL, messages |-> msgs, tools |-> tools, tool_choice |-> "auto"]

\* the second completion request: no tools, no tool_choice
\* (variant: the tools are declared again)
second_request_with_tools(msgs) ==
    [model |-> LLM_MODEL, messages |-> msgs, tools |-> tools, tool_choice |-> "auto"]
second_request(msgs) ==
    [model |-> LLM_MODEL, messages |-> msgs, tools |-> <<>>, tool_choice |-> ""]

\* tool_call = tool_calls[0]
\* (variant: the last request is taken)
select_last_tool_call(tcs) == tcs[Len(tcs)]
select_tool_call(tcs) == tcs[1]

UNKNOWN_PREFIX == "Error: LLM tried to call unknown function '"
UNKNOWN_SUFFIX == "'."
COMM_ERROR_PREFIX == <<"An error occurred while communicating with the LLM: ">>

\* f"Error: LLM tried to call unknown function '{function_name}'."
unknown_function_error(function_name) ==
    Str(<<UNKNOWN_PREFIX, function_name, UNKNOWN_SUFFIX>>)

\* the except clause of get_answer
\* (variants: the exception is raised again; the message leaves {e} out)
get_answer_except_reraise(e) == Raise(e)
get_answer_except_generic(e) == Return(Str(COMM_ERROR_PREFIX))
get_answer_except(e) == Return(Str(COMM_ERROR_PREFIX \o ExcStr(e)))

\* A step of get_answer's try block ends in a return, in an exception, or at
\* the next blocking call: [next, outcome, messages, tool_call, query].
StepReturn(x, msgs, tc) ==
    [next |-> "return", outcome |-> Return(x), messages |-> msgs,
     tool_call |-> tc, query |-> None]
StepRaise(e, msgs, tc) ==
    [next |-> "raise", outcome |-> Raise(e), messages |-> msgs,
     tool_call |-> tc, query |-> None]
StepSearch(q, msgs, tc) ==
    [next |-> "search", outcome |-> Return(None), messages |-> msgs,
     tool_call |-> tc, query |-> q]

\* the tool branch, from the append of the assistant message to the call of web_search
tool_branch(msgs, message) ==
    LET msgs2 == Append(msgs, message)
        tool_call == select_tool_call(message.tool_calls)
        function_name == tool_call.name
        loaded == json_loads(tool_call.arguments)
    IN  IF loaded.raised THEN StepRaise(loaded.exc, msgs2, tool_call)
        ELSE IF function_name = SUPPORTED_TOOL
        THEN LET q == query_argument(loaded.value) IN
             IF q.raised THEN StepRaise(q.exc, msgs2, tool_call)
             ELSE StepSearch(q.value, msgs2, tool_call)
        ELSE StepReturn(unknown_function_error(function_name), msgs2, tool_call)

\* the else branch: the model answered directly
\* (variant: the return statement is missing)
direct_answer_no_return(msgs, message) == StepReturn(None, msgs, NoToolCall)
direct_answer(msgs, message) == StepReturn(message.content, msgs, NoToolCall)

\* the try block from the first completion call to its next call or return
try_first(msgs, response) ==
    IF response.kind = "fail" THEN StepRaise(response.exc, msgs, NoToolCall)
    ELSE LET message == response_message(response) IN
         IF message.tool_calls # <<>>
         THEN tool_branch(msgs, message)
         ELSE direct_answer(msgs, message)

\* the try block from the second completion call to its return
try_second(response) ==
    IF response.kind = "fail" THEN Raise(response.exc)
    ELSE Return(response.content)

\* an exception raised in the try block goes through the except clause
handled(o) == IF o.raised THEN get_answer_except(o.exc) ELSE o

\* the second completion call, inside the try block
\* (variant: the second call is made outside the try block)
second_call_outcome_unguarded(response) == try_second(response)
second_call_outcome(response) == handled(try_second(response))

\* ----------------------------------------------------------------- inputs
Questions ==
    { <<"What is the latest news about Gemini model?">>, <<"What is 2+2?">> }

\* text contents a model response can carry (the empty string included)
Texts == { <<"The answer is 4.">>, <<>> }

\* failures of a completion call
CommErrors ==
    { Exc("APIConnectionError", <<"Connection error.">>),
      Exc("APITimeoutError", <<"Request timed out.">>) }

ToolNames == { "web_search", "unsupported_tool" }

\* arguments strings, well-formed and not
ArgsQueryNews == << P("{"), S("query"), P(":"), S("Gemini model news"), P("}") >>
ArgsQueryWeather == << P("{"), S("query"), P(":"), S("weather"), P("}") >>
ArgsEmptyObject == << P("{"), P("}") >>
ArgsOtherKey == << P("{"), S("q"), P(":"), S("weather"), P("}") >>
ArgsNullQuery == << P("{"), S("query"), P(":"), NullTok, P("}") >>
ArgsTwoQueries ==
    << P("{"), S("query"), P(":"), S("weather"), P(","),
       S("query"), P(":"), S("Gemini model news"), P("}") >>
ArgsTruncated == << P("{"), S("query") >>
ArgsEmptyText == << >>
ArgsBareWord == << Bad("weather") >>
ArgsTrailingComma == << P("{"), S("query"), P(":"), S("weather"), P(","), P("}") >>
ArgsExtraData == << P("{"), S("query"), P(":"), S("weather"), P("}"), P("}") >>
ArgsList == << P("["), S("weather"), P("]") >>
ArgsString == << S("weather") >>
ArgsNull == << NullTok >>

ArgStrings ==
    { ArgsQueryNews, ArgsQueryWeather, ArgsEmptyObject, ArgsOtherKey, ArgsNullQuery,
      ArgsTwoQueries, ArgsTruncated, ArgsEmptyText, ArgsBareWord, ArgsTrailingComma,
      ArgsExtraData, ArgsList, ArgsString, ArgsNull }

CallId(i) == "call_" \o ToString(i)

\* the tool calls a response can carry at position i
ToolCallsAt(i) ==
    IF i = 1
    THEN { ToolCall(CallId(1), n, a) : n \in ToolNames, a \in ArgStrings }
    ELSE { ToolCall(CallId(i), "web_search", ArgsQueryWeather),
           ToolCall(CallId(i), "unsupported_tool", ArgsQueryNews) }

RECURSIVE ToolCallSeqs(_)
ToolCallSeqs(n) ==
    IF n = 1 THEN { <<tc>> : tc \in ToolCallsAt(1) }
    ELSE { Append(tcs, tc) : tcs \in ToolCallSeqs(n - 1), tc \in ToolCallsAt(n) }

FirstResponses ==
    { FailResp(e) : e \in CommErrors }
    \cup { TextResp(c) : c \in Texts }
    \cup { ToolResp(tcs) : tcs \in UNION { ToolCallSeqs(n) : n \in 1..MaxToolCalls } }

\* the second request declares no tools: the model answers in text, or the call fails
SecondResponses ==
    { FailResp(e) : e \in CommErrors } \cup { TextResp(c) : c \in Texts }

\* result dicts of the provider: two with both fields (one whose fields
\* themselves start with "Title: "), one without title, one without body
ResultDicts ==
    { [keys |-> {"title", "body"}, title |-> <<"Gemini 2.5 released">>,
       body |-> <<"Google announced a new model.">>],
      [keys |-> {"title", "body"}, title |-> <<"Title: ", "a style guide">>,
       body |-> <<"Title: ", "is a label.">>],
      [keys |-> {"body"}, title |-> <<>>, body |-> <<"A snippet without title.">>],
      [keys |-> {"title"}, title |-> <<"A title without snippet">>, body |-> <<>>] }

SearchErrors ==
    { Exc("DDGSException", <<"No results found.">>),
      Exc("TimeoutException", <<"Request timed out">>) }
OpenErrors == { Exc("DDGSException", <<"Failed to initialise the client">>) }

ProviderOutcomes ==
    { OpenFail(e) : e \in OpenErrors }
    \cup { SearchFail(e) : e \in SearchErrors }
    \cup { Hits(h) : h \in UNION { [1..n -> ResultDicts] : n \in 0..MaxHits } }

\* ------------------------------------------- inputs, several invocations
\* The presentation layer may run get_answer for several submissions at
\* once, each on a thread of its own; the module-level client is the one
\* thing they share.  Each invocation gets inputs that carry its number, so
\* that a message can be told from the other invocation's.
Invocations == {1, 2}

Tag(i) == ToString(i)
QuestionOf(i) == << "question of caller " \o Tag(i) >>
QueryOf(i) == "query of caller " \o Tag(i)
TextOf(i) == << "answer for caller " \o Tag(i) >>
FinalTextOf(i) == << "final answer for caller " \o Tag(i) >>
ArgsOf(i) == << P("{"), S("query"), P(":"), S(QueryOf(i)), P("}") >>
CallIdOf(i, n) == "call_" \o Tag(i) \o "_" \o ToString(n)

FirstResponsesOf(i) ==
    { FailResp(Exc("APIConnectionError", <<"Connection error.">>)),
      TextResp(TextOf(i)),
      ToolResp(<< ToolCall(CallIdOf(i, 1), "web_search", ArgsOf(i)) >>),
      ToolResp(<< ToolCall(CallIdOf(i, 1), "web_search", ArgsOf(i)),
                  ToolCall(CallIdOf(i, 2), "web_search", ArgsQueryWeather) >>),
      ToolResp(<< ToolCall(CallIdOf(i, 1), "unsupported_tool", ArgsOf(i)) >>),
      ToolResp(<< ToolCall(CallIdOf(i, 1), "web_search", ArgsTruncated) >>) }

SecondResponsesOf(i) ==
    { FailResp(Exc("APITimeoutError", <<"Request timed out.">>)),
      TextResp(FinalTextOf(i)) }

ProviderOutcomesOf(i) ==
    { SearchFail(Exc("TimeoutException", <<"Request timed out">>)),
      Hits(<<>>),
      Hits(<< [keys |-> {"title", "body"}, title |-> <<"result for caller " \o Tag(i)>>,
               body |-> <<"A snippet.">>] >>) }

\* the locals of one invocation of get_answer
IdleCall ==
    [pc |-> "idle", question |-> <<>>, messages |-> <<>>, tool_call |-> NoToolCall,
     query |-> None, outcome |-> Return(None), response1 |-> NoResp,
     response2 |-> NoResp, provider |-> NoProvider, search_ret |-> Return(None)]

\* messages = [{"role": "user", "content": question}]: a new list for every
\* call, whatever conversation went through the client before
\* (variant: the conversation is kept across calls and the question appended)
start_conversation_carry_over(earlier, q) == Append(earlier, user_message(q))
start_conversation(earlier, q) == << user_message(q) >>

\* ------------------------------------------------------------------ state
VARIABLES
    pc,          \* where get_answer is: idle, first_call, search, second_call, done
    question,    \* the argument of get_answer
    messages,    \* the local list messages
    tool_call,   \* the local tool_call
    query,       \* function_args.get("query"), the argument of web_search
    outcome,     \* how get_answer ended (meaningful when pc = "done")
    requests,    \* the completion requests sent to the model endpoint, in order
    searches,    \* the queries web_search was called with, in order
    events,      \* the order of calls: "model", "search", "return"
    response1,   \* what the first completion call gave
    response2,   \* what the second completion call gave
    provider,    \* what the search provider did in the web_search call
    search_ret,  \* how the web_search call ended
    calls,       \* several invocations: the locals of each one
    wire,        \* several invocations: the requests the shared client sent, in order
    search_wire  \* several invocations: the web_search calls, in order

oneVars == << pc, question, messages, tool_call, query, outcome, requests, searches,
              events, response1, response2, provider, search_ret >>
manyVars == << calls, wire, search_wire >>
vars == << oneVars, manyVars >>

Init ==
    /\ pc = "idle"
    /\ question = <<>>
    /\ messages = <<>>
    /\ tool_call = NoToolCall
    /\ query = None
    /\ outcome = Return(None)
    /\ requests = <<>>
    /\ searches = <<>>
    /\ events = <<>>
    /\ response1 = NoResp
    /\ response2 = NoResp
    /\ provider = NoProvider
    /\ search_ret = Return(None)
    /\ calls = [i \in Invocations |-> IdleCall]
    /\ wire = <<>>
    /\ search_wire = <<>>

\* get_answer(question) is called: messages = [{"role": "user", ...}]
Submit ==
    /\ pc = "idle"
    /\ \E q \in Questions :
        /\ question' = q
        /\ messages' = << user_message(q) >>
    /\ pc' = "first_call"
    /\ UNCHANGED << tool_call, query, outcome, requests, searches, events,
                    response1, response2, provider, search_ret >>
    /\ UNCHANGED manyVars

\* the first completion call and what follows it up to web_search or the return
FirstModelCall ==
    /\ pc = "first_call"
    /\ \E response \in FirstResponses :
        LET st == try_first(messages, response) IN
        /\ requests' = Append(requests, first_request(messages))
        /\ response1' = response
        /\ messages' = st.messages
        /\ tool_call' = st.tool_call
        /\ query' = st.query
        /\ IF st.next = "search"
           THEN /\ pc' = "search"
                /\ events' = Append(events, "model")
                /\ UNCHANGED outcome
           ELSE /\ pc' = "done"
                /\ events' = events \o <<"model", "return">>
                /\ outcome' = handled(st.outcome)
    /\ UNCHANGED << question, searches, response2, provider, search_ret >>
    /\ UNCHANGED manyVars

\* the call of web_search and the append of the tool message
WebSearchCall ==
    /\ pc = "search"
    /\ \E prov \in ProviderOutcomes :
        LET r == web_search(query, prov) IN
        /\ provider' = prov
        /\ search_ret' = r
        /\ searches' = Append(searches, query)
        /\ IF r.raised
           THEN /\ pc' = "done"
                /\ events' = events \o <<"search", "return">>
                /\ outcome' = handled(r)
                /\ UNCHANGED messages
           ELSE /\ pc' = "second_call"
                /\ events' = Append(events, "search")
                /\ messages' = Append(messages,
                                      tool_message(tool_call, tool_call.name, r.value))
                /\ UNCHANGED outcome
    /\ UNCHANGED << question, tool_call, query, requests, response1, response2 >>
    /\ UNCHANGED manyVars

\* the second completion call and the return
\* (variant: a failed second call is tried again)
SecondModelCallRetry ==
    /\ pc = "second_call"
    /\ Len(requests) < 4
    /\ \E response \in SecondResponses :
        /\ requests' = Append(requests, second_request(messages))
        /\ response2' = response
        /\ IF response.kind = "fail" /\ Len(requests) < 3
           THEN /\ pc' = "second_call"
                /\ events' = Append(events, "model")
                /\ UNCHANGED outcome
           ELSE /\ pc' = "done"
                /\ events' = events \o <<"model", "return">>
                /\ outcome' = second_call_outcome(response)
    /\ UNCHANGED << question, messages, tool_call, query, searches, response1,
                    provider, search_ret >>
    /\ UNCHANGED manyVars
SecondModelCall ==
    /\ pc = "second_call"
    /\ \E response \in SecondResponses :
        /\ requests' = Append(requests, second_request(messages))
        /\ response2' = response
        /\ outcome' = second_call_outcome(response)
    /\ pc' = "done"
    /\ events' = events \o <<"model", "return">>
    /\ UNCHANGED << question, messages, tool_call, query, searches, response1,
                    provider, search_ret >>
    /\ UNCHANGED manyVars

Next == Submit \/ FirstModelCall \/ WebSearchCall \/ SecondModelCall

Spec == Init /\ [][Next]_vars

\* ------------------------------------------------- several invocations
\* the conversation of the latest request that went through the client
LastConversation ==
    IF wire = <<>> THEN <<>> ELSE wire[Len(wire)].request.messages

\* invocation i: get_answer(question) is called
ManySubmit(i) ==
    /\ calls[i].pc = "idle"
    /\ calls' = [calls EXCEPT ![i] =
                   [@ EXCEPT !.pc = "first_call",
                             !.question = QuestionOf(i),
                             !.messages = start_conversation(LastConversation,
                                                             QuestionOf(i))]]
    /\ UNCHANGED << wire, search_wire >>
    /\ UNCHANGED oneVars

\* invocation i: the first completion call, up to web_search or the return
ManyFirstModelCall(i) ==
    /\ calls[i].pc = "first_call"
    /\ \E response \in FirstResponsesOf(i) :
        LET st == try_first(calls[i].messages, response) IN
        /\ wire' = Append(wire, [inv |-> i, request |-> first_request(calls[i].messages)])
        /\ calls' = [calls EXCEPT ![i] =
                       [@ EXCEPT !.response1 = response,
                                 !.messages = st.messages,
                                 !.tool_call = st.tool_call,
                                 !.query = st.query,
                                 !.pc = IF st.next = "search" THEN "search" ELSE "done",
                                 !.outcome = IF st.next = "search" THEN @
                                             ELSE handled(st.outcome)]]
    /\ UNCHANGED search_wire
    /\ UNCHANGED oneVars

\* invocation i: the call of web_search and the append of the tool message
ManyWebSearchCall(i) ==
    /\ calls[i].pc = "search"
    /\ \E prov \in ProviderOutcomesOf(i) :
        LET r == web_search(calls[i].query, prov) IN
        /\ search_wire' = Append(search_wire, [inv |-> i, query |-> calls[i].query])
        /\ calls' = [calls EXCEPT ![i] =
                       [@ EXCEPT !.provider = prov,
                                 !.search_ret = r,
                                 !.pc = IF r.raised THEN "done" ELSE "second_call",
                                 !.outcome = IF r.raised THEN handled(r) ELSE @,
                                 !.messages =
                                     IF r.raised THEN @
                                     ELSE Append(@, tool_message(calls[i].tool_call,
                                                                 calls[i].tool_call.name,
                                                                 r.value))]]
    /\ UNCHANGED wire
    /\ UNCHANGED oneVars

\* invocation i: the second completion call and the return
ManySecondModelCall(i) ==
    /\ calls[i].pc = "second_call"
    /\ \E response \in SecondResponsesOf(i) :
        /\ wire' = Append(wire, [inv |-> i, request |-> second_request(calls[i].messages)])
        /\ calls' = [calls EXCEPT ![i] =
                       [@ EXCEPT !.response2 = response,
                                 !.outcome = second_call_outcome(response),
                                 !.pc = "done"]]
    /\ UNCHANGED search_wire
    /\ UNCHANGED oneVars

NextMany ==
    \E i \in Invocations :
        \/ ManySubmit(i)
        \/ ManyFirstModelCall(i)
        \/ ManyWebSearchCall(i)
        \/ ManySecondModelCall(i)

SpecMany == Init /\ [][NextMany]_vars

\* ------------------------------------------------------------ properties
Done == pc = "done"

\* the response carries at least one tool invocation request
RequestsTool(response) == response.kind = "ok" /\ response.tool_calls # <<>>

\* the first tool invocation request of the first response
FirstToolCall == response1.tool_calls[1]

\* get_answer returned the value x
Returned(x) == outcome = Return(x)

\* get_answer returned a str
ReturnedStr == ~outcome.raised /\ IsStr(outcome.value)

\* the three kinds of answer
IsUnknownToolError(x) ==
    /\ IsStr(x) /\ Len(x.v) = 3
    /\ x.v[1] = UNKNOWN_PREFIX /\ x.v[3] = UNKNOWN_SUFFIX
IsCommError(x) ==
    /\ IsStr(x) /\ Len(x.v) >= Len(COMM_ERROR_PREFIX)
    /\ SubSeq(x.v, 1, Len(COMM_ERROR_PREFIX)) = COMM_ERROR_PREFIX
IsFinalText(x) ==
    \/ /\ response1.kind = "ok" /\ response1.tool_calls = <<>>
       /\ response2.kind = "none" /\ x = response1.content
    \/ /\ response2.kind = "ok" /\ x = response2.content

\* the arguments strings that carry a query, with the query each one carries
QueryCarried ==
    { <<ArgsQueryNews, Str(<<"Gemini model news">>)>>,
      <<ArgsQueryWeather, Str(<<"weather">>)>>,
      <<ArgsNullQuery, None>> }

\* C1: whenever the first tool invocation request of the first response names
\* a tool other than web_search, whatever its arguments, get_answer returns a
\* string that contains the requested tool name, and it has made no search
\* call and no second model request.
C1_UnknownToolIsNamed ==
    (Done /\ RequestsTool(response1) /\ FirstToolCall.name # SUPPORTED_TOOL)
    => /\ ReturnedStr
       /\ Contains(outcome.value.v, <<FirstToolCall.name>>)
       /\ searches = <<>>
       /\ Len(requests) = 1

\* C2: when get_answer is done it has returned (not raised) a single str,
\* which is the model's final text, an unknown-tool error or a
\* communication-failure error.
C2_DoneYieldsString ==
    Done => /\ ReturnedStr
            /\ \/ IsFinalText(outcome.value)
               \/ IsUnknownToolError(outcome.value)
               \/ IsCommError(outcome.value)

C2_Witness ==
    /\ Done /\ ReturnedStr
    /\ RequestsTool(response1) /\ provider.kind = "search_fail"
    /\ response2.kind = "fail"

\* C3 as stated: when the first response requests web_search with a query q,
\* get_answer makes exactly one search call, with q, then exactly one second
\* model request, and returns the second response's text; the order is model
\* request, search, model request, return.
C3_SearchThenSecondText ==
    \A qc \in QueryCarried :
        (Done /\ RequestsTool(response1) /\ FirstToolCall.name = SUPPORTED_TOOL
              /\ FirstToolCall.arguments = qc[1])
        => /\ searches = <<qc[2]>>
           /\ Len(requests) = 2
           /\ events = <<"model", "search", "model", "return">>
           /\ response2.kind = "ok"
           /\ Returned(response2.content)

\* C3 amended: as C3, but the second response's text is returned when the
\* second model request yields a response; the calls and their order are the
\* same when it fails.
C3_SearchThenSecondRequest ==
    \A qc \in QueryCarried :
        (RequestsTool(response1) /\ FirstToolCall.name = SUPPORTED_TOOL
              /\ FirstToolCall.arguments = qc[1])
        => /\ pc = "search" => searches = <<>> /\ events = <<"model">>
           /\ pc = "second_call" =>
                 searches = <<qc[2]>> /\ events = <<"model", "search">>
           /\ Len(requests) = (IF Done THEN 2 ELSE 1)
           /\ Done => /\ searches = <<qc[2]>>
                      /\ events = <<"model", "search", "model", "return">>
                      /\ response2.kind = "ok" => Returned(response2.content)

C3_Witness ==
    /\ Done /\ RequestsTool(response1)
    /\ FirstToolCall = ToolCall(CallId(1), "web_search", ArgsQueryNews)
    /\ searches = << Str(<<"Gemini model news">>) >>
    /\ response2.kind = "ok" /\ Returned(response2.content)

\* C4: when the first response carries no tool invocation request, get_answer
\* has made exactly one model request and no search call, and returns that
\* response's content unchanged.
C4_DirectAnswer ==
    (Done /\ response1.kind = "ok" /\ response1.tool_calls = <<>>)
    => /\ Len(requests) = 1
       /\ searches = <<>>
       /\ events = <<"model", "return">>
       /\ Returned(response1.content)

C4_Witness ==
    /\ Done /\ response1 = TextResp(<<"The answer is 4.">>)
    /\ Returned(Str(<<"The answer is 4.">>))

\* C5: at most one search call and at most two model requests are made, no
\* request is sent twice, and a call that failed is followed by no further
\* call, however many tool requests the first response carries.
C5_AtMostOneRoundTrip ==
    /\ Len(searches) <= 1
    /\ Len(requests) <= 2
    /\ Len(requests) = 2 => requests[1] # requests[2]
    /\ response1.kind = "fail" => Len(requests) = 1 /\ searches = <<>>
    /\ response2.kind = "fail" => Len(requests) = 2 /\ Done
    /\ Done => events[Len(events)] = "return"
    /\ \A i \in 1..Len(events) : events[i] = "return" => i = Len(events)

C5_Witness ==
    /\ Done /\ RequestsTool(response1) /\ Len(response1.tool_calls) >= 2
    /\ \A i \in 1..Len(response1.tool_calls) :
           response1.tool_calls[i].name = SUPPORTED_TOOL
    /\ Len(searches) = 1 /\ Len(requests) = 2 /\ response2.kind = "fail"

\* C6: when the first model request raises, get_answer returns a string that
\* contains the error's message, and has made no search call and no second
\* model request.
C6_FirstRequestFails ==
    (Done /\ response1.kind = "fail")
    => /\ ReturnedStr
       /\ IsCommError(outcome.value)
       /\ Contains(outcome.value.v, ExcStr(response1.exc))
       /\ Len(requests) = 1
       /\ searches = <<>>
       /\ events = <<"model", "return">>

C6_Witness ==
    /\ Done /\ response1 = FailResp(Exc("APIConnectionError", <<"Connection error.">>))
    /\ Returned(Str(COMM_ERROR_PREFIX \o <<"Connection error.">>))

\* the provider gave results and one of those web_search formats lacks a field
MissingField ==
    /\ provider.kind = "hits"
    /\ \E i \in 1..Min(Len(provider.hits), max_results) :
           provider.hits[i].keys # {"title", "body"}

\* every result the provider has carries both fields
WellFormedHits ==
    /\ provider.kind = "hits"
    /\ \A i \in 1..Len(provider.hits) : provider.hits[i].keys = {"title", "body"}

HasPrefix(s, pre) == Len(s) >= Len(pre) /\ SubSeq(s, 1, Len(pre)) = pre

\* C7: whatever the provider does (results, no results, a failure opening it,
\* a failure in the search call, a result without a field), web_search
\* returns (does not raise) a str: a digest, "No results found.", or an
\* error string.
C7_WebSearchNeverRaises ==
    searches # <<>>
    => /\ ~search_ret.raised
       /\ IsStr(search_ret.value)
       /\ \/ HasPrefix(search_ret.value.v, <<"Title: ">>)
          \/ search_ret.value.v = NO_RESULTS
          \/ HasPrefix(search_ret.value.v, SEARCH_ERROR_PREFIX)
       /\ provider.kind \in {"open_fail", "search_fail"}
          => search_ret.value.v = SEARCH_ERROR_PREFIX \o ExcStr(provider.exc)
       /\ MissingField => HasPrefix(search_ret.value.v, SEARCH_ERROR_PREFIX)

C7_Witness ==
    /\ searches # <<>> /\ MissingField /\ Len(provider.hits) >= 2
    /\ provider.hits[1].keys = {"title", "body"}
    /\ ~search_ret.raised
    /\ search_ret.value = Str(SEARCH_ERROR_PREFIX \o <<"'body'">>)

RECURSIVE Lines(_)
\* s.split("\n")
Lines(s) ==
    IF \E i \in 1..Len(s) : s[i] = "\n"
    THEN LET i == CHOOSE i \in 1..Len(s) :
                      s[i] = "\n" /\ \A j \in 1..(i - 1) : s[j] # "\n"
         IN <<SubSeq(s, 1, i - 1)>> \o Lines(SubSeq(s, i + 1, Len(s)))
    ELSE <<s>>

IsTitleLine(l) == HasPrefix(l, <<"Title: ">>)
TitleLines(s) == SelectSeq(Lines(s), IsTitleLine)

\* C8: when the provider has no result web_search returns exactly "No results
\* found."; when it has n >= 1 results (each with title and body) the
\* returned string has exactly min(n, 3) "Title:"-prefixed lines, the i-th
\* one carrying the title of the provider's i-th result.
C8_DigestCappedAtThree ==
    (searches # <<>> /\ WellFormedHits)
    => LET n == Len(provider.hits)
           lines == TitleLines(search_ret.value.v)
       IN /\ ~search_ret.raised /\ IsStr(search_ret.value)
          /\ n = 0 => search_ret.value.v = NO_RESULTS
          /\ n >= 1 =>
               /\ Len(lines) = Min(n, 3)
               /\ \A i \in 1..Len(lines) :
                      lines[i] = <<"Title: ">> \o provider.hits[i].title

C8_Witness ==
    /\ searches # <<>> /\ WellFormedHits /\ Len(provider.hits) > 3
    /\ Len(TitleLines(search_ret.value.v)) = 3

\* the search of this invocation failed
SearchFailed == provider.kind \in {"open_fail", "search_fail"} \/ MissingField

\* the tool-result message of the second request
ToolResultMessage == requests[2].messages[3]

\* C9 as stated: when the model requests web_search and the search fails,
\* the error string web_search returned is the content of the tool-result
\* message of the second model request, which is still issued, and the
\* answer is the second response's text.
C9_SearchFailureAnsweredByText ==
    (Done /\ searches # <<>> /\ SearchFailed)
    => /\ Len(requests) = 2
       /\ Len(requests[2].messages) = 3
       /\ ToolResultMessage.role = "tool"
       /\ HasPrefix(ToolResultMessage.content.v, SEARCH_ERROR_PREFIX)
       /\ response2.kind = "ok"
       /\ Returned(response2.content)

\* C9 amended: as C9, but the answer is the second response's text when the
\* second model request yields a response.
C9_SearchFailureForwarded ==
    (Done /\ searches # <<>> /\ SearchFailed)
    => /\ Len(requests) = 2
       /\ Len(requests[2].messages) = 3
       /\ ToolResultMessage.role = "tool"
       /\ ToolResultMessage.content = search_ret.value
       /\ HasPrefix(ToolResultMessage.content.v, SEARCH_ERROR_PREFIX)
       /\ provider.kind \in {"open_fail", "search_fail"}
          => ToolResultMessage.content = Str(SEARCH_ERROR_PREFIX \o ExcStr(provider.exc))
       /\ response2.kind = "ok" => Returned(response2.content)

C9_Witness ==
    /\ Done /\ provider = SearchFail(Exc("TimeoutException", <<"Request timed out">>))
    /\ ToolResultMessage.content = Str(SEARCH_ERROR_PREFIX \o <<"Request timed out">>)
    /\ response2 = TextResp(<<"The answer is 4.">>)
    /\ Returned(Str(<<"The answer is 4.">>))

\* C10: when the second model request fails, get_answer returns (does not
\* raise) the communication-failure string that carries the error's
\* message; no third model request and no second search call are made.
C10_SecondRequestFails ==
    (Done /\ response2.kind = "fail")
    => /\ ReturnedStr
       /\ outcome.value.v = COMM_ERROR_PREFIX \o ExcStr(response2.exc)
       /\ Len(requests) = 2
       /\ Len(searches) = 1
       /\ events = <<"model", "search", "model", "return">>

C10_Witness ==
    /\ Done /\ response2 = FailResp(Exc("APITimeoutError", <<"Request timed out.">>))
    /\ provider.kind = "hits" /\ Len(searches) = 1
    /\ Returned(Str(COMM_ERROR_PREFIX \o <<"Request timed out.">>))

\* the arguments strings json.loads rejects, and those that decode
MalformedArgs ==
    { ArgsTruncated, ArgsEmptyText, ArgsBareWord, ArgsTrailingComma, ArgsExtraData }
DecodableArgs == ArgStrings \ MalformedArgs

\* the well-formed objects without a "query" key
MissingQueryArgs == { ArgsEmptyObject, ArgsOtherKey }

IsToolMessage(m) == m.role = "tool"

\* C12: when the first response carries several tool invocation requests,
\* only the first counts: its name decides whether a search is made, its
\* query is the one searched, its id and name are those of the only
\* tool-result message, and at most one search call is made.
C12_OnlyFirstToolCallHonored ==
    (RequestsTool(response1) /\ Len(response1.tool_calls) >= 2)
    => /\ Len(searches) <= 1
       /\ Len(SelectSeq(messages, IsToolMessage)) <= 1
       /\ FirstToolCall.name # SUPPORTED_TOOL
          => /\ searches = <<>>
             /\ Len(requests) = 1
             /\ SelectSeq(messages, IsToolMessage) = <<>>
             /\ FirstToolCall.arguments \in DecodableArgs
                => Returned(Str(<<UNKNOWN_PREFIX, FirstToolCall.name, UNKNOWN_SUFFIX>>))
       /\ \A qc \in QueryCarried :
            (FirstToolCall.name = SUPPORTED_TOOL /\ FirstToolCall.arguments = qc[1]
                 /\ pc \in {"second_call", "done"})
            => /\ searches = <<qc[2]>>
               /\ Len(SelectSeq(messages, IsToolMessage)) = 1
               /\ messages[3].role = "tool"
               /\ messages[3].tool_call_id = FirstToolCall.id
               /\ messages[3].name = FirstToolCall.name

C12_Witness ==
    /\ Done /\ RequestsTool(response1) /\ Len(response1.tool_calls) = 2
    /\ response1.tool_calls[1] = ToolCall(CallId(1), "web_search", ArgsQueryNews)
    /\ response1.tool_calls[2] = ToolCall(CallId(2), "web_search", ArgsQueryWeather)
    /\ searches = << Str(<<"Gemini model news">>) >>
    /\ messages[3].tool_call_id = CallId(1)

\* C13: the first model request carries exactly one message, the user's
\* question, and declares exactly one tool, web_search with the required
\* parameter query, with automatic tool choice; the second model request,
\* when made, carries exactly three messages (the user's question, the
\* assistant's tool-invocation message, a tool-result message whose content
\* is the string web_search returned) and declares no tools.
C13_RequestShapes ==
    /\ Len(requests) >= 1
       => /\ Len(requests[1].messages) = 1
          /\ requests[1].messages[1].role = "user"
          /\ requests[1].messages[1].content = Str(question)
          /\ Len(requests[1].tools) = 1
          /\ requests[1].tools[1].name = "web_search"
          /\ requests[1].tools[1].required = <<"query">>
          /\ requests[1].tool_choice = "auto"
    /\ Len(requests) >= 2
       => /\ Len(requests[2].messages) = 3
          /\ requests[2].messages[1].role = "user"
          /\ requests[2].messages[1].content = Str(question)
          /\ requests[2].messages[2].role = "assistant"
          /\ requests[2].messages[2].tool_calls = response1.tool_calls
          /\ requests[2].messages[2].tool_calls # <<>>
          /\ requests[2].messages[3].role = "tool"
          /\ ~search_ret.raised /\ IsStr(search_ret.value)
          /\ requests[2].messages[3].content = search_ret.value
          /\ requests[2].tools = <<>>
          /\ requests[2].tool_choice = ""

C13_Witness ==
    /\ Len(requests) = 2 /\ Len(requests[2].messages) = 3
    /\ provider.kind = "hits" /\ Len(provider.hits) >= 1 /\ WellFormedHits
    /\ HasPrefix(requests[2].messages[3].content.v, <<"Title: ">>)
    /\ requests[2].tools = <<>>

\* C14: when the first response requests web_search with arguments that do
\* not decode, get_answer makes no search call and no second model request
\* and ends with an error string.
C14_MalformedArgumentsFatal ==
    (Done /\ RequestsTool(response1) /\ FirstToolCall.name = SUPPORTED_TOOL
          /\ FirstToolCall.arguments \in MalformedArgs)
    => /\ ReturnedStr
       /\ IsCommError(outcome.value)
       /\ searches = <<>>
       /\ Len(requests) = 1
       /\ events = <<"model", "return">>

C14_Witness ==
    /\ Done /\ RequestsTool(response1)
    /\ FirstToolCall = ToolCall(CallId(1), "web_search", ArgsTruncated)
    /\ Returned(Str(COMM_ERROR_PREFIX \o <<"Expecting ':' delimiter">>))
    /\ searches = <<>>

\* C15 as stated: when the first response requests web_search with a
\* well-formed object that has no "query" key, get_answer still makes exactly
\* one search call, with None as the query, appends the tool-result message,
\* makes the second model request and returns its text.
C15_MissingQueryAnsweredByText ==
    (Done /\ RequestsTool(response1) /\ FirstToolCall.name = SUPPORTED_TOOL
          /\ FirstToolCall.arguments \in MissingQueryArgs)
    => /\ searches = <<None>>
       /\ Len(requests) = 2
       /\ Len(requests[2].messages) = 3
       /\ requests[2].messages[3].role = "tool"
       /\ response2.kind = "ok"
       /\ Returned(response2.content)

\* C15 amended: as C15, but the second response's text is returned when the
\* second model request yields a response.
C15_MissingQuerySearched ==
    (RequestsTool(response1) /\ FirstToolCall.name = SUPPORTED_TOOL
          /\ FirstToolCall.arguments \in MissingQueryArgs)
    => /\ \/ (pc = "search" /\ query = None /\ searches = <<>>)
          \/ (pc \in {"second_call", "done"} /\ searches = <<None>>)
       /\ pc \in {"second_call", "done"}
          => /\ Len(messages) = 3
             /\ messages[3].role = "tool"
             /\ messages[3].content = search_ret.value
       /\ Done => /\ Len(requests) = 2
                  /\ requests[2].messages = messages
                  /\ events = <<"model", "search", "model", "return">>
                  /\ response2.kind = "ok" => Returned(response2.content)

C15_Witness ==
    /\ Done /\ RequestsTool(response1)
    /\ FirstToolCall = ToolCall(CallId(1), "web_search", ArgsOtherKey)
    /\ searches = <<None>> /\ Len(requests) = 2
    /\ response2.kind = "ok" /\ Returned(response2.content)

\* m is a message of invocation j: its question, the assistant message with
\* its tool requests, or the result of its tool call
MessageOf(m, j) ==
    \/ m.role = "user" /\ m.content = Str(QuestionOf(j))
    \/ /\ m.role = "assistant" /\ m.tool_calls # <<>>
       /\ \A n \in 1..Len(m.tool_calls) : m.tool_calls[n].id = CallIdOf(j, n)
    \/ m.role = "tool" /\ m.tool_call_id = CallIdOf(j, 1)

\* the answer of invocation i is the one its own responses give
AnswerFromOwnResponses(i) ==
    LET c == calls[i] IN
    /\ ~c.outcome.raised /\ IsStr(c.outcome.value)
    /\ c.response1.kind = "fail"
       => c.outcome.value.v = COMM_ERROR_PREFIX \o <<"Connection error.">>
    /\ (c.response1.kind = "ok" /\ c.response1.tool_calls = <<>>)
       => c.outcome.value.v = TextOf(i)
    /\ c.response2.kind = "ok" => c.outcome.value.v = FinalTextOf(i)
    /\ c.response2.kind = "fail"
       => c.outcome.value.v = COMM_ERROR_PREFIX \o <<"Request timed out.">>
    /\ (RequestsTool(c.response1) /\ c.response2.kind = "none")
       => \/ c.outcome.value.v = <<UNKNOWN_PREFIX, "unsupported_tool", UNKNOWN_SUFFIX>>
          \/ c.outcome.value.v = COMM_ERROR_PREFIX \o <<"Expecting ':' delimiter">>

\* C11: under every interleaving of two invocations, each request the client
\* sends for an invocation starts with that invocation's question (and its
\* first request holds nothing else), every message in it is a message of
\* that invocation and none is a message of the other, each search is made
\* with the invocation's own query, and each answer is the one the
\* invocation's own model and search responses give.
C11_InvocationsIndependent ==
    /\ \A k \in 1..Len(wire) :
         LET i == wire[k].inv
             msgs == wire[k].request.messages
         IN /\ Len(msgs) \in {1, 3}
            /\ msgs[1].role = "user" /\ msgs[1].content = Str(QuestionOf(i))
            /\ wire[k].request.tools # <<>> => Len(msgs) = 1
            /\ \A n \in 1..Len(msgs) :
                 /\ MessageOf(msgs[n], i)
                 /\ \A j \in Invocations \ {i} : ~MessageOf(msgs[n], j)
            /\ Len(msgs) = 3
               => /\ msgs[2].tool_calls = calls[i].response1.tool_calls
                  /\ msgs[3].content = calls[i].search_ret.value
    /\ \A k \in 1..Len(search_wire) :
         search_wire[k].query = Str(<<QueryOf(search_wire[k].inv)>>)
    /\ \A i \in Invocations :
         /\ calls[i].pc # "idle"
            => /\ calls[i].messages[1] = user_message(QuestionOf(i))
               /\ \A n \in 1..Len(calls[i].messages) :
                    \A j \in Invocations \ {i} : ~MessageOf(calls[i].messages[n], j)
         /\ calls[i].pc = "done" => AnswerFromOwnResponses(i)

\* both invocations ran to the end with their requests interleaved
C11_Witness ==
    /\ \A i \in Invocations : calls[i].pc = "done" /\ calls[i].response2.kind = "ok"
    /\ Len(wire) = 4
    /\ wire[1].inv = 1 /\ wire[2].inv = 2 /\ wire[3].inv = 1 /\ wire[4].inv = 2
    /\ search_wire[1].inv = 2
    /\ calls[1].outcome = Return(Str(FinalTextOf(1)))
    /\ calls[2].outcome = Return(Str(FinalTextOf(2)))

====
